---- MODULE Spec2Model ----
(***************************************************************************)
(* Model of barplots/utils/plot_bar_labels.py (the tick and rotation       *)
(* engine) and barplots/utils/plot_boxplots.py (style resolution for each  *)
(* drawn bar).                                                             *)
(*                                                                         *)
(* Numbers.  Positions returned by text_positions are counted in thirds of *)
(* 1e-5, so that round(pos, 5) is a real conversion with no ties; rounded  *)
(* and final positions are counted in units of 1e-5.  The axis width       *)
(* returned by get_max_bar_position is counted in units of 1/20, so that   *)
(* width*0.0002 is a whole number of 1e-5 units and width*5/n, width*20/n  *)
(* compare exactly.  Floating point inexactness is not modelled.           *)
(***************************************************************************)
EXTENDS Integers, Sequences, FiniteSets, TLC

\* Largest number of (position, label) pairs a level yields.
MaxBars == 2

\* Largest number of keys in a style map.
MaxKeys == 2

VARIABLES
    \* plot_bar_labels: arguments
    vertical, levels, minor_rotation, major_rotation,
    unique_minor_labels, unique_major_labels, unique_data_label,
    df, width,
    \* plot_bar_labels: locals
    pc, todo, other_positions, iterations,
    \* the drawing surface
    axes,
    \* plot_boxplots
    bars, alphas, colors, hatch, drawn, bpc

args == <<vertical, levels, minor_rotation, major_rotation,
          unique_minor_labels, unique_major_labels, unique_data_label,
          df, width>>
labelvars == <<args, pc, todo, other_positions, iterations, axes>>
boxvars == <<bars, alphas, colors, hatch, drawn, bpc>>
vars == <<labelvars, boxvars>>

----------------------------------------------------------------------------
\* Helpers over sequences and sets.

Range(s) == {s[i] : i \in 1..Len(s)}

Max(S) == CHOOSE m \in S : \A x \in S : x <= m

SeqsUpTo(S, n) == UNION {[1..k -> S] : k \in 0..n}

\* Variants of the loop range: every level down to 0, and shallowest first.
ReversedRangeAll(lo, hi) == [i \in 1..hi |-> hi - i]
ForwardRange(lo, hi) == [i \in 1..(IF hi > lo THEN hi - lo ELSE 0) |-> lo + i - 1]

\* reversed(range(lo, hi)) as a sequence: hi-1, hi-2, ..., lo.
ReversedRange(lo, hi) == [i \in 1..(IF hi > lo THEN hi - lo ELSE 0) |-> hi - i]

----------------------------------------------------------------------------
\* Rotation arguments: the string "auto" or a fixed angle.

Auto == [auto |-> TRUE, angle |-> 0]
Fixed(a) == [auto |-> FALSE, angle |-> a]

\* sanitize_ml_labels on one label: an external formatter.  It changes the
\* text, can change its length and can send two raw labels to one string.
sanitize_ml_label(raw) ==
    CASE raw = "" -> ""
      [] raw = "a" -> "A"
      [] raw = "A" -> "A"
      [] raw = "bc" -> "Bc"
      [] raw = "acc" -> "Acc"
      [] OTHER -> raw

sanitize_ml_labels(raws) == [i \in 1..Len(raws) |-> sanitize_ml_label(raws[i])]

\* round(pos, 5): thirds of 1e-5 to the nearest whole 1e-5.
Round5(pos) == (pos + 1) \div 3

\* width*0.0002, in units of 1e-5, for a width counted in units of 1/20:
\* (width/20) * (2/10000) * 100000.
Offset(w) == (w * 2 * 100000) \div (20 * 10000)

\* Lines 85-92: round, then nudge what an earlier level already holds.
Nudge(position, seen, w) ==
    IF position \in seen THEN position + Offset(w) ELSE position

\* Variant: a level also nudges what it has itself produced so far.
FinalPositionsRunning(raw, seen, w) ==
    [i \in 1..Len(raw) |->
        Nudge(Round5(raw[i]), seen \cup {Round5(raw[k]) : k \in 1..(i - 1)}, w)]

FinalPositions(raw, seen, w) ==
    [i \in 1..Len(raw) |-> Nudge(Round5(raw[i]), seen, w)]

\* n <= width*k/chars for chars > 0, as exact rationals (width is in 1/20).
AtMost(n, w, k, chars) == n * chars * 20 <= w * k
AtLeast(n, w, k, chars) == n * chars * 20 >= w * k

\* Variant: strict comparisons.
AdaptedMinorRotationStrict(rot, minor, vert, labels, chars, w) ==
    IF rot.auto
    THEN IF minor /\ ~AtLeast(Cardinality(Range(labels)), w, 5, chars) /\ vert
         THEN 90
         ELSE IF minor /\ ~AtLeast(Cardinality(Range(labels)), w, 20, chars) /\ ~vert
              THEN 90
              ELSE 0
    ELSE rot.angle

\* Lines 97-113.
AdaptedMinorRotation(rot, minor, vert, labels, chars, w) ==
    IF rot.auto
    THEN IF minor /\ AtMost(Cardinality(Range(labels)), w, 5, chars) /\ vert
         THEN 90
         ELSE IF minor /\ AtMost(Cardinality(Range(labels)), w, 20, chars) /\ ~vert
              THEN 90
              ELSE 0
    ELSE rot.angle

\* Variant: the vertical case compares with <= like the horizontal one.
AdaptedMajorRotationSymmetric(rot, minor, vert, labels, chars, w) ==
    IF rot.auto
    THEN IF ~minor /\ AtMost(Cardinality(Range(labels)), w, 5, chars) /\ ~vert
         THEN 90
         ELSE IF ~minor /\ AtMost(Cardinality(Range(labels)), w, 20, chars) /\ vert
              THEN 90
              ELSE 0
    ELSE rot.angle

\* Lines 116-132.
AdaptedMajorRotation(rot, minor, vert, labels, chars, w) ==
    IF rot.auto
    THEN IF ~minor /\ AtMost(Cardinality(Range(labels)), w, 5, chars) /\ ~vert
         THEN 90
         ELSE IF ~minor /\ AtLeast(Cardinality(Range(labels)), w, 20, chars) /\ vert
              THEN 90
              ELSE 0
    ELSE rot.angle

\* The divisions of lines 100, 106, 119, 125 are evaluated only behind
\* `minor and` / `not minor and`; a zero divisor raises ZeroDivisionError.
DividesByZero(minor, chars) ==
    /\ chars = 0
    /\ \/ minor_rotation.auto /\ minor
       \/ major_rotation.auto /\ ~minor

\* Variant: the vertical rule on both charts.
MajorTickLengthSame(vert, rotation, chars) ==
    IF rotation > 80 THEN 6 * chars ELSE 20

\* Lines 150-153 and 181-184: length of the paired major tick.
MajorTickLength(vert, rotation, chars) ==
    IF vert
    THEN IF rotation > 80 THEN 6 * chars ELSE 20
    ELSE IF rotation > 80 THEN 20 ELSE 6 * chars

----------------------------------------------------------------------------
\* The drawing surface (matplotlib Axes), reduced to what the two functions
\* write: axis labels, locator bins, formatter, tick positions, tick labels
\* and tick parameters of both axes.

NoParams == [labelsize |-> -1, labelrotation |-> -1, length |-> -1,
             width |-> -1, direction |-> "unset"]

NoTicks == [minor |-> <<>>, major |-> <<>>]

FreshAxes ==
    [xlabel |-> "xlabel", ylabel |-> "ylabel",
     nbins |-> [x |-> 0, y |-> 0],
     formatter |-> [x |-> "default", y |-> "default"],
     ticks |-> [x |-> NoTicks, y |-> NoTicks],
     ticklabels |-> [x |-> NoTicks, y |-> NoTicks],
     params |-> [x |-> [minor |-> NoParams, major |-> NoParams],
                 y |-> [minor |-> NoParams, major |-> NoParams]]]

\* An axes object that an earlier subplot call has already decorated.
UsedAxes ==
    [FreshAxes EXCEPT
        !.ticks = [x |-> [minor |-> <<7>>, major |-> <<8>>],
                   y |-> [minor |-> <<7>>, major |-> <<8>>]],
        !.ticklabels = [x |-> [minor |-> <<"old">>, major |-> <<"Old">>],
                        y |-> [minor |-> <<"old">>, major |-> <<"Old">>]]]

\* Lines 55-73: axes.set_ylabel(""), locator_params and set_major_formatter
\* of the value axis.
SetupAxes(a, vert, unique) ==
    LET value == IF vert THEN "y" ELSE "x"
        b == IF unique THEN [a EXCEPT !.ylabel = ""] ELSE a
    IN [b EXCEPT !.nbins[value] = 5,
                 !.formatter[value] = "sanitize_digits"]

\* Lines 139-203: set_xticks/set_xticklabels/tick_params (vertical chart) or
\* their y counterparts (horizontal chart).
ApplyLevel(a, vert, minor, positions, labels, chars, minrot, majrot) ==
    LET ax == IF vert THEN "x" ELSE "y"
        which == IF minor THEN "minor" ELSE "major"
        b == [a EXCEPT !.ticks[ax][which] = positions,
                       !.ticklabels[ax][which] = labels]
    IN IF minor
       THEN [b EXCEPT
               !.params[ax].minor =
                   [@ EXCEPT !.labelsize = 9, !.labelrotation = minrot],
               !.params[ax].major =
                   [@ EXCEPT !.labelsize = 10, !.direction = "out",
                             !.length = MajorTickLength(vert, minrot, chars),
                             !.width = 0]]
       ELSE [b EXCEPT
               !.params[ax].major =
                   [@ EXCEPT !.labelsize = IF vert THEN 10 ELSE @,
                             !.labelrotation = majrot]]

\* Variant: the two flags exchanged.
SkippedSwapped(minor) ==
    \/ minor /\ unique_major_labels
    \/ ~minor /\ unique_minor_labels

\* Lines 134-137: the two `continue` statements.
Skipped(minor) ==
    \/ minor /\ unique_minor_labels
    \/ ~minor /\ unique_major_labels

----------------------------------------------------------------------------
\* The table.  df[l+1] is what text_positions(df, bar_width, space_width, l)
\* yields for level l: a sequence of (position, raw label) pairs.

text_positions(table, level) == table[level + 1]

Positions(pairs) == [i \in 1..Len(pairs) |-> pairs[i].pos]
Labels(pairs) == [i \in 1..Len(pairs) |-> pairs[i].label]

\* Lines 80-83.
MaxCharacters(labels) == Max({Len(labels[i]) : i \in 1..Len(labels)})

\* Increasing sequences over S whose neighbours are at least gap apart.
Increasing(S, n, gap) ==
    {q \in SeqsUpTo(S, n) : \A i \in 1..(Len(q) - 1) : q[i] + gap <= q[i + 1]}

\* Pairs whose positions vary and whose label is fixed: positions grow along
\* the axis and can lie closer than 1e-5.
PositionData ==
    {[i \in 1..Len(ps) |-> [pos |-> ps[i], label |-> "a"]] :
        ps \in Increasing({0, 1, 3, 4}, MaxBars, 1)}

\* The same with positions of one level at least 1e-5 apart.
SpacedData ==
    {[i \in 1..Len(ps) |-> [pos |-> ps[i], label |-> "a"]] :
        ps \in Increasing({0, 3, 4, 7, 10}, MaxBars, 3)}

\* Pairs whose labels vary and whose positions are evenly spaced.
LabelData ==
    {[i \in 1..Len(ls) |-> [pos |-> 3 * i, label |-> ls[i]]] :
        ls \in SeqsUpTo({"", "a", "A", "bc"}, MaxBars)}

\* Evenly spaced pairs with one of two labels.
PlainData ==
    {[i \in 1..Len(ls) |-> [pos |-> 3 * i, label |-> ls[i]]] :
        ls \in SeqsUpTo({"a", "bc"}, MaxBars)}

\* What the levels above the last two hold; the function never reads them.
OuterData == {<<>>, <<[pos |-> 3, label |-> "a"]>>}

Tables(D, n) ==
    IF n = 1 THEN {<<d>> : d \in D}
    ELSE {o \o <<d1, d2>> : o \in [1..(n - 2) -> OuterData], d1 \in D, d2 \in D}

----------------------------------------------------------------------------
\* plot_boxplots.  A style map is a dict in insertion order: a sequence of
\* (key, value) entries with distinct keys.  A key is a bare category (a
\* string) or a tuple of categories.

Scalar(c) == [scalar |-> TRUE, path |-> <<c>>]
Tuple(t) == [scalar |-> FALSE, path |-> t]

HasKey(map, k) == \E i \in 1..Len(map) : map[i].key = k

ValueAt(map, k) == map[CHOOSE i \in 1..Len(map) : map[i].key = k].value

Last(t) == t[Len(t)]

\* t holds p as a run of consecutive elements.
Within(p, t) ==
    \E o \in 0..(Len(t) - Len(p)) : \A j \in 1..Len(p) : t[o + j] = p[j]

Matching(map, t) == {i \in 1..Len(map) : Within(map[i].key.path, t)}

\* get_best_match: the longest key that matches the category path, the
\* first such key in insertion order on a tie.
BestIndex(map, t) ==
    CHOOSE i \in Matching(map, t) :
        \A j \in Matching(map, t) :
            \/ Len(map[j].key.path) < Len(map[i].key.path)
            \/ Len(map[j].key.path) = Len(map[i].key.path) /\ i <= j

get_best_match(map, t) == map[BestIndex(map, t)].value

\* Variant: get_best_match alone, without the leaf lookup.
StyleForBestMatch(map, index) == get_best_match(map, <<"top">> \o index)

\* Lines 48-52 (alpha), 53-57 (color), 62-64 (hatch): the leaf category
\* itself first, get_best_match on (top_index, *index) otherwise.
StyleFor(map, index) ==
    IF HasKey(map, Scalar(Last(index)))
    THEN ValueAt(map, Scalar(Last(index)))
    ELSE get_best_match(map, <<"top">> \o index)

\* get_best_match finds no key for the category path.
NoStyleMatch(map, index) ==
    /\ ~HasKey(map, Scalar(Last(index)))
    /\ Matching(map, <<"top">> \o index) = {}

\* Lines 58-66: hatch=None is passed on as None (0 here).
HatchFor(h, index) == IF h.none THEN 0 ELSE StyleFor(h.map, index)

StyleKeys ==
    <<Scalar("x"), Scalar("A"), Scalar("top"), Tuple(<<"A", "x">>)>>

\* Insertion-ordered maps over StyleKeys; the value of a key tells the key.
StyleMaps ==
    {[i \in 1..Len(ks) |-> [key |-> StyleKeys[ks[i]], value |-> ks[i]]] :
        ks \in {q \in SeqsUpTo(1..Len(StyleKeys), MaxKeys) :
                  \A i, j \in 1..Len(q) : i # j => q[i] # q[j]}}

\* What bar_positions yields, reduced to the index tuple of each bar.
BarTables ==
    {<<<<"A", "x">>>>,
     <<<<"A", "x">>, <<"A", "y">>, <<"B", "x">>>>}

IdleLabels ==
    /\ vertical = TRUE
    /\ levels = 1
    /\ minor_rotation = Auto
    /\ major_rotation = Auto
    /\ unique_minor_labels = FALSE
    /\ unique_major_labels = FALSE
    /\ unique_data_label = FALSE
    /\ df = <<>>
    /\ width = 0
    /\ pc = "idle"
    /\ todo = <<>>
    /\ other_positions = {}
    /\ iterations = <<>>
    /\ axes = FreshAxes

InitBox ==
    /\ bars \in BarTables
    /\ alphas \in StyleMaps
    /\ colors \in StyleMaps
    /\ hatch \in {[none |-> TRUE, map |-> <<>>]}
                 \cup {[none |-> FALSE, map |-> m] : m \in StyleMaps}
    /\ drawn = <<>>
    /\ bpc = "loop"
    /\ IdleLabels

\* One iteration of the loop of lines 41-69: the next bar is resolved and
\* handed to plot_boxplot.
PlotBoxplot ==
    /\ bpc = "loop"
    /\ Len(drawn) < Len(bars)
    /\ LET index == bars[Len(drawn) + 1]
       IN IF \/ NoStyleMatch(alphas, index)
             \/ NoStyleMatch(colors, index)
             \/ ~hatch.none /\ NoStyleMatch(hatch.map, index)
          THEN /\ bpc' = "NoStyleMatch"
               /\ UNCHANGED drawn
          ELSE /\ drawn' = Append(drawn,
                     [index |-> index,
                      alpha |-> StyleFor(alphas, index),
                      color |-> StyleFor(colors, index),
                      hatch |-> HatchFor(hatch, index),
                      label |-> Last(index)])
               /\ bpc' = "loop"
    /\ UNCHANGED <<bars, alphas, colors, hatch, labelvars>>

\* bar_positions is exhausted.
BoxReturn ==
    /\ bpc = "loop"
    /\ Len(drawn) = Len(bars)
    /\ bpc' = "done"
    /\ UNCHANGED <<bars, alphas, colors, hatch, drawn, labelvars>>

NextBox == PlotBoxplot \/ BoxReturn

SpecBox == InitBox /\ [][NextBox]_vars

IdleBox ==
    /\ bars = <<>>
    /\ alphas = <<>>
    /\ colors = <<>>
    /\ hatch = <<>>
    /\ drawn = <<>>
    /\ bpc = "idle"

InitLabels(D, Rotations, Flags, Widths, AxesSet) ==
    /\ vertical \in BOOLEAN
    /\ levels \in {1, 2, 3}
    /\ \E r \in Rotations :
          /\ minor_rotation = r[1]
          /\ major_rotation = r[2]
    /\ \E f \in Flags :
          /\ unique_minor_labels = f[1]
          /\ unique_major_labels = f[2]
          /\ unique_data_label = f[3]
    /\ df \in Tables(D, levels)
    /\ width \in Widths
    /\ pc = "call"
    /\ todo = <<>>
    /\ other_positions = {}
    /\ iterations = <<>>
    /\ axes \in AxesSet
    /\ IdleBox

----------------------------------------------------------------------------
\* plot_bar_labels, lines 52-73: the seen-position set, the axis label and
\* the numeric axis; then the loop of line 75 is entered.
Call ==
    /\ pc = "call"
    /\ other_positions' = {}
    /\ axes' = SetupAxes(axes, vertical, unique_data_label)
    /\ todo' = ReversedRange(IF levels - 2 > 0 THEN levels - 2 ELSE 0, levels)
    /\ pc' = "loop"
    /\ UNCHANGED <<args, iterations, boxvars>>

\* One iteration of the loop of lines 75-203.
Iterate ==
    /\ pc = "loop"
    /\ todo # <<>>
    /\ LET level == Head(todo)
           pairs == text_positions(df, level)
           labels == sanitize_ml_labels(Labels(pairs))
           chars == MaxCharacters(labels)
           positions == FinalPositions(Positions(pairs), other_positions, width)
           minor == (level = levels - 1)
           minrot == AdaptedMinorRotation(minor_rotation, minor, vertical,
                                          labels, chars, width)
           majrot == AdaptedMajorRotation(major_rotation, minor, vertical,
                                          labels, chars, width)
       IN IF pairs = <<>>
          THEN \* line 76: unpacking zip() of nothing raises ValueError
               /\ pc' = "ValueError"
               /\ UNCHANGED <<todo, other_positions, iterations, axes>>
          ELSE IF DividesByZero(minor, chars)
          THEN /\ pc' = "ZeroDivisionError"
               /\ other_positions' = other_positions \cup Range(positions)
               /\ UNCHANGED <<todo, iterations, axes>>
          ELSE /\ other_positions' = other_positions \cup Range(positions)
               /\ iterations' = Append(iterations,
                     [level |-> level, minor |-> minor,
                      positions |-> positions, labels |-> labels,
                      adapted_minor_rotation |-> minrot,
                      adapted_major_rotation |-> majrot,
                      applied |-> ~Skipped(minor)])
               /\ axes' = IF Skipped(minor) THEN axes
                          ELSE ApplyLevel(axes, vertical, minor, positions,
                                          labels, chars, minrot, majrot)
               /\ todo' = Tail(todo)
               /\ pc' = "loop"
    /\ UNCHANGED <<args, boxvars>>

\* The loop of line 75 is exhausted and the function returns.
Return ==
    /\ pc = "loop"
    /\ todo = <<>>
    /\ pc' = "done"
    /\ UNCHANGED <<args, todo, other_positions, iterations, axes, boxvars>>

NextLabels == Call \/ Iterate \/ Return

AllFlags == {<<a, b, c>> : a \in BOOLEAN, b \in BOOLEAN, c \in BOOLEAN}

\* Every combination of the three uniqueness flags, on a fresh or an already
\* decorated axes object.
Init ==
    InitLabels(PlainData, {<<Auto, Auto>>, <<Fixed(45), Fixed(30)>>},
               AllFlags, {4}, {FreshAxes, UsedAxes})

Spec == Init /\ [][NextLabels]_vars

\* Positions that collide after rounding and after the nudge.
InitJitter ==
    InitLabels(PositionData, {<<Auto, Auto>>},
               {<<a, FALSE, FALSE>> : a \in BOOLEAN}, {1, 4}, {FreshAxes})

SpecJitter == InitJitter /\ [][NextLabels]_vars

\* Positions that are well apart inside every level.
InitSpaced ==
    InitLabels(SpacedData, {<<Auto, Auto>>},
               {<<a, FALSE, FALSE>> : a \in BOOLEAN}, {1, 4}, {FreshAxes})

SpecSpaced == InitSpaced /\ [][NextLabels]_vars

\* Labels of several lengths and counts, automatic and fixed rotations.
InitRotation ==
    InitLabels(LabelData,
               {<<Auto, Auto>>, <<Fixed(80), Fixed(45)>>, <<Fixed(81), Auto>>},
               {<<FALSE, FALSE, FALSE>>}, {1, 4}, {FreshAxes})

SpecRotation == InitRotation /\ [][NextLabels]_vars

----------------------------------------------------------------------------
\* Properties of plot_bar_labels.

\* The axis that carries the category ticks, and the axis of the values.
CatAxis == IF vertical THEN "x" ELSE "y"
ValueAxis == IF vertical THEN "y" ELSE "x"

Iterations == 1..Len(iterations)

\* Count of distinct sanitized labels and longest sanitized label of the
\* level of iteration i, from the table.
LevelLabels(i) == sanitize_ml_labels(Labels(text_positions(df, iterations[i].level)))
Distinct(i) == Cardinality(Range(LevelLabels(i)))
Longest(i) == Max({Len(LevelLabels(i)[j]) : j \in 1..Len(LevelLabels(i))})

\* C8: the loop handles level levels-1 first, as the only minor level, then
\* level levels-2 if there is one, and nothing else; a completed call has
\* handled min(levels, 2) levels.
C8_DeepestFirstTwoLevels ==
    /\ Len(iterations) <= 2
    /\ \A i \in Iterations :
          /\ iterations[i].level = levels - i
          /\ iterations[i].level >= 0
          /\ iterations[i].minor = (i = 1)
    /\ pc = "done" => Len(iterations) = IF levels >= 2 THEN 2 ELSE 1

C8_Witness ==
    /\ pc = "done"
    /\ levels = 3
    /\ Len(iterations) = 2
    /\ iterations[2].level = 1

\* C4: an iteration whose level has its uniqueness flag set leaves the axes
\* exactly as they were, whatever they held before; an iteration whose level
\* has its flag clear writes its positions, labels and rotation.
C4_FlagAloneSkipsLevel ==
    [][(pc = "loop" /\ todo # <<>> /\ pc' = "loop") =>
          LET minor == Head(todo) = levels - 1
              flag == IF minor THEN unique_minor_labels ELSE unique_major_labels
              which == IF minor THEN "minor" ELSE "major"
              it == iterations'[Len(iterations')]
          IN IF flag
             THEN axes' = axes
             ELSE /\ axes'.ticks[CatAxis][which] = it.positions
                  /\ axes'.ticklabels[CatAxis][which] = it.labels
                  /\ axes'.params[CatAxis][which].labelrotation =
                        IF minor THEN it.adapted_minor_rotation
                        ELSE it.adapted_major_rotation]_vars

C4_Witness ==
    /\ pc = "done"
    /\ levels >= 2
    /\ unique_minor_labels
    /\ ~unique_major_labels
    /\ axes.ticks[CatAxis].minor = <<7>>
    /\ axes.params[CatAxis].minor = NoParams
    /\ axes.ticks[CatAxis].major = iterations[2].positions

\* C6: an iteration over a level without pairs ends the call with an error
\* and leaves the axes as they were; nothing happens after the error; the
\* numeric axis and the levels applied before stay as they were set.
C6_EmptyLevelAborts ==
    [][/\ (pc = "loop" /\ todo # <<>> /\ text_positions(df, Head(todo)) = <<>>) =>
             /\ pc' = "ValueError"
             /\ axes' = axes
       /\ pc = "ValueError" => axes' = axes
       /\ pc' = "ValueError" =>
             /\ axes'.nbins[ValueAxis] = 5
             /\ axes'.formatter[ValueAxis] = "sanitize_digits"
             /\ \A i \in Iterations :
                   /\ iterations[i].level > Head(todo)
                   /\ iterations[i].applied =>
                         axes'.ticks[CatAxis].minor = iterations[i].positions]_vars

C6_Witness ==
    /\ pc = "ValueError"
    /\ Len(iterations) = 1
    /\ iterations[1].applied
    /\ axes.ticks[CatAxis].minor = iterations[1].positions
    /\ axes.ticks[CatAxis].major = <<8>>
    /\ axes.formatter[ValueAxis] = "sanitize_digits"

\* C10: once the call has set up the axes, unique_data_label has cleared
\* the label of the value axis and left the label of the category axis;
\* without the flag both labels are as before.
C10_DataAxisLabelCleared ==
    pc \notin {"call", "idle"} =>
        LET value == IF vertical THEN axes.ylabel ELSE axes.xlabel
            category == IF vertical THEN axes.xlabel ELSE axes.ylabel
        IN /\ value = IF ~unique_data_label THEN
                         (IF vertical THEN "ylabel" ELSE "xlabel")
                      ELSE ""
           /\ category = IF vertical THEN "xlabel" ELSE "ylabel"

----------------------------------------------------------------------------
\* Positions.

\* The final positions of the iterations before iteration i.
EmittedBefore(i) == UNION {Range(iterations[k].positions) : k \in 1..(i - 1)}

RawPositions(i) == Positions(text_positions(df, iterations[i].level))

\* C1: no two final positions of one call are equal, within a level or
\* across levels.
C1_FinalPositionsDistinct ==
    \A i, k \in Iterations :
        \A j \in 1..Len(iterations[i].positions) :
            \A l \in 1..Len(iterations[k].positions) :
                (i # k \/ j # l) =>
                    iterations[i].positions[j] # iterations[k].positions[l]

\* C7: a final position is the nearest multiple of 1e-5 to the raw position,
\* plus width*0.0002 exactly when that multiple is a final position of an
\* earlier iteration of the call; the first iteration nudges nothing.
C7_NudgeOnlyAcrossLevels ==
    \A i \in Iterations :
        /\ Len(iterations[i].positions) = Len(RawPositions(i))
        /\ \A j \in 1..Len(RawPositions(i)) :
              \E r \in 0..RawPositions(i)[j] :
                  /\ 3 * r - 1 <= RawPositions(i)[j]
                  /\ RawPositions(i)[j] <= 3 * r + 1
                  /\ iterations[i].positions[j] =
                        IF r \in EmittedBefore(i)
                        THEN r + (width * 2 * 100000) \div (20 * 10000)
                        ELSE r

\* A major position was nudged off a minor one, while the minor level holds
\* two equal rounded positions that stayed as they were.
C7_Witness ==
    /\ Len(iterations) = 2
    /\ Len(iterations[1].positions) = 2
    /\ iterations[1].positions[1] = iterations[1].positions[2]
    /\ RawPositions(1)[1] # RawPositions(1)[2]
    /\ \E j \in 1..Len(iterations[2].positions) :
          /\ iterations[2].positions[j] = iterations[1].positions[1] + width
          /\ RawPositions(2)[j] = 1

----------------------------------------------------------------------------
\* Rotations.

\* C2 as stated: with density = distinct/longest, the automatic minor
\* rotation is 90 exactly when density <= width*5 (vertical) or
\* density <= width*20 (horizontal).
C2_MinorByDensity ==
    \A i \in Iterations :
        (iterations[i].minor /\ minor_rotation.auto) =>
            iterations[i].adapted_minor_rotation =
                IF \/ vertical /\ Distinct(i) * 20 <= width * 5 * Longest(i)
                   \/ ~vertical /\ Distinct(i) * 20 <= width * 20 * Longest(i)
                THEN 90 ELSE 0

\* C2 amended: the automatic minor rotation is 90 exactly when
\* distinct <= width*5/longest (vertical) or distinct <= width*20/longest
\* (horizontal), and that is the rotation of the minor ticks.
C2_MinorByProduct ==
    \A i \in Iterations :
        (iterations[i].minor /\ minor_rotation.auto) =>
            /\ Longest(i) > 0
            /\ iterations[i].adapted_minor_rotation =
                  IF \/ vertical /\ Distinct(i) * Longest(i) * 20 <= width * 5
                     \/ ~vertical /\ Distinct(i) * Longest(i) * 20 <= width * 20
                  THEN 90 ELSE 0
            /\ iterations[i].applied =>
                  axes.params[CatAxis].minor.labelrotation =
                      iterations[i].adapted_minor_rotation

\* One short label on a vertical chart of width 4/20: 1 <= 0.2*5/1.
C2_Witness ==
    /\ minor_rotation.auto
    /\ vertical
    /\ width = 4
    /\ Len(iterations) >= 1
    /\ Distinct(1) = 1
    /\ Longest(1) = 1
    /\ axes.params.x.minor.labelrotation = 90

\* C3 as stated: the automatic major rotation is 90 exactly when
\* density <= width*5 (horizontal) or density >= width*20 (vertical); a fixed
\* angle is used as it is.
C3_MajorByDensity ==
    \A i \in Iterations :
        ~iterations[i].minor =>
            iterations[i].adapted_major_rotation =
                IF ~major_rotation.auto THEN major_rotation.angle
                ELSE IF \/ ~vertical /\ Distinct(i) * 20 <= width * 5 * Longest(i)
                        \/ vertical /\ Distinct(i) * 20 >= width * 20 * Longest(i)
                     THEN 90 ELSE 0

\* C3 amended: the automatic major rotation is 90 exactly when
\* distinct <= width*5/longest (horizontal) or distinct >= width*20/longest
\* (vertical); a fixed angle is used as it is; that is the rotation of the
\* major ticks.
C3_MajorByProduct ==
    \A i \in Iterations :
        ~iterations[i].minor =>
            /\ major_rotation.auto => Longest(i) > 0
            /\ iterations[i].adapted_major_rotation =
                  IF ~major_rotation.auto THEN major_rotation.angle
                  ELSE IF \/ ~vertical /\ Distinct(i) * Longest(i) * 20 <= width * 5
                          \/ vertical /\ Distinct(i) * Longest(i) * 20 >= width * 20
                       THEN 90 ELSE 0
            /\ iterations[i].applied =>
                  axes.params[CatAxis].major.labelrotation =
                      iterations[i].adapted_major_rotation

\* Two distinct labels, the longest of two characters, on a vertical chart
\* of width 4/20: 2 >= 0.2*20/2.
C3_Witness ==
    /\ major_rotation.auto
    /\ vertical
    /\ width = 4
    /\ Len(iterations) = 2
    /\ Distinct(2) = 2
    /\ Longest(2) = 2
    /\ axes.params.x.major.labelrotation = 90

\* C9 as stated: on either chart, an applied minor level sets the major tick
\* length to 6*longest when the minor rotation exceeds 80 and to 20
\* otherwise, and the major tick width to 0.
C9_LengthSameOnBothCharts ==
    \A i \in Iterations :
        (iterations[i].minor /\ iterations[i].applied) =>
            /\ axes.params[CatAxis].major.width = 0
            /\ axes.params[CatAxis].major.length =
                  IF iterations[i].adapted_minor_rotation > 80
                  THEN 6 * Longest(i) ELSE 20

\* C9 amended: that rule on a vertical chart, the two lengths exchanged on a
\* horizontal chart; width 0 on both.
C9_LengthByChart ==
    \A i \in Iterations :
        (iterations[i].minor /\ iterations[i].applied) =>
            /\ axes.params[CatAxis].major.width = 0
            /\ axes.params[CatAxis].minor.labelrotation =
                  iterations[i].adapted_minor_rotation
            /\ axes.params[CatAxis].major.length =
                  IF vertical = (iterations[i].adapted_minor_rotation > 80)
                  THEN 6 * Longest(i) ELSE 20

\* A horizontal chart with a fixed minor rotation of 81 and a fixed length.
C9_Witness ==
    /\ ~vertical
    /\ minor_rotation = Fixed(81)
    /\ Len(iterations) >= 1
    /\ iterations[1].applied
    /\ Longest(1) = 2
    /\ axes.params.y.major.length = 20
    /\ axes.params.y.major.width = 0

----------------------------------------------------------------------------
\* Properties of plot_boxplots.

FullTupleValue(map, index) == ValueAt(map, Tuple(index))

LeafThenFullTupleValue(map, index) ==
    IF HasKey(map, Scalar(Last(index)))
    THEN ValueAt(map, Scalar(Last(index)))
    ELSE ValueAt(map, Tuple(index))

====
